---- MODULE Spec2Model ----
(***************************************************************************)
(* Buy vs Rent NPV simulator (src/app.py).                                 *)
(*                                                                         *)
(* The script is one top-to-bottom run: the sidebar inputs are read, the   *)
(* loan terms are derived, and compute_npv is called by the live decision, *)
(* the sell-vs-hold table, the break-even loop, the NPV-vs-years loop and  *)
(* the Monte Carlo loop.  compute_npv is a closure over the script's       *)
(* globals; the loops unpack its result into the globals b, r and _.       *)
(*                                                                         *)
(* Python floats are modelled as decimal floating point numbers with       *)
(* eight significant digits, rounding:   [m |-> mantissa, e |-> exponent], *)
(* value m * 10^e, with 10^7 <= |m| < 10^8 or m = 0.  The exponent is not  *)
(* bounded; NoFloatOverflow checks that every value the model computes     *)
(* stays below the binary64 range, so that no inf or nan arises within the *)
(* bounds.                                                                 *)
(***************************************************************************)
EXTENDS Integers, Sequences, FiniteSets, TLC

(***************************************************************************)
(* Floating point arithmetic.                                              *)
(***************************************************************************)
Pow10(k) == <<1, 10, 100, 1000, 10000, 100000, 1000000, 10000000,
              100000000, 1000000000>>[k + 1]

MantLo == Pow10(7)
MantHi == Pow10(8)
Half == Pow10(4)

Abs(a) == IF a < 0 THEN -a ELSE a

Sgn(a) == IF a < 0 THEN -1 ELSE IF a > 0 THEN 1 ELSE 0

NDigits(a) ==
  IF a < Pow10(5)
    THEN IF a < 100 THEN (IF a < 10 THEN 1 ELSE 2)
         ELSE IF a < 1000 THEN 3 ELSE IF a < 10000 THEN 4 ELSE 5
    ELSE IF a < Pow10(7) THEN (IF a < Pow10(6) THEN 6 ELSE 7)
         ELSE IF a < Pow10(8) THEN 8 ELSE IF a < Pow10(9) THEN 9 ELSE 10

Zero == [m |-> 0, e |-> 0]

\* q is |m| rounded to eight digits after k were dropped; a carry into a
\* ninth digit drops one more.
Rounded(m, e, k, q) ==
  IF q = MantHi THEN [m |-> Sgn(m) * MantLo, e |-> e + k + 1]
  ELSE [m |-> Sgn(m) * q, e |-> e + k]

\* m * 10^e, m of d digits, to eight significant digits.
NormDigits(m, e, d) ==
  IF d > 8
    THEN Rounded(m, e, d - 8,
                 (Abs(m) + 5 * Pow10(d - 9)) \div Pow10(d - 8))
    ELSE [m |-> m * Pow10(8 - d), e |-> e - (8 - d)]

\* The float nearest to m * 10^e, m any integer (half rounds away from 0).
Norm(m, e) == IF m = 0 THEN Zero ELSE NormDigits(m, e, NDigits(Abs(m)))

FromInt(k) == Norm(k, 0)

\* The decimal literal k / 10^d, e.g. Dec(1, 1) is 0.1.
Dec(k, d) == Norm(k, -d)

Neg(x) == [m |-> -(x.m), e |-> x.e]

IsZero(x) == x.m = 0

\* -1, 0, 1 as x < y, x = y, x > y.
Cmp(x, y) ==
  IF Sgn(x.m) # Sgn(y.m) THEN (IF Sgn(x.m) < Sgn(y.m) THEN -1 ELSE 1)
  ELSE IF x.m = 0 THEN 0
  ELSE IF x.e # y.e THEN (IF x.e < y.e THEN -Sgn(x.m) ELSE Sgn(x.m))
  ELSE IF x.m < y.m THEN -1 ELSE IF x.m > y.m THEN 1 ELSE 0

Lt(x, y) == Cmp(x, y) < 0
Gt(x, y) == Cmp(x, y) > 0
Le(x, y) == Cmp(x, y) <= 0
Ge(x, y) == Cmp(x, y) >= 0

\* Python's max(x, y) and min(x, y): the first argument unless the second
\* is strictly greater (smaller).
Max(x, y) == IF Gt(y, x) THEN y ELSE x
Min(x, y) == IF Lt(y, x) THEN y ELSE x

\* The smaller operand's mantissa against hi's with one guard digit.
Aligned(m, d) ==
  IF d = 0 THEN m * 10 ELSE Sgn(m) * (Abs(m) \div Pow10(d - 1))

\* hi + lo, hi.e >= lo.e, neither zero.
AddOrdered(hi, lo) ==
  IF hi.e - lo.e > 9 THEN hi
  ELSE Norm(hi.m * 10 + Aligned(lo.m, hi.e - lo.e), hi.e - 1)

Add(x, y) ==
  IF x.m = 0 THEN y
  ELSE IF y.m = 0 THEN x
  ELSE IF x.e >= y.e THEN AddOrdered(x, y) ELSE AddOrdered(y, x)

Sub(x, y) == Add(x, Neg(y))

\* The product's leading digits: q8 is the mantissas' product over 10^8,
\* rest the next four digits.
MulRound(s, e, q8, rest) ==
  IF q8 >= MantLo THEN Norm(s * (q8 * 10 + (rest \div 1000)), e + 7)
  ELSE Norm(s * (q8 * 100 + (rest \div 100)), e + 6)

MulMid(s, e, hh, mid) == MulRound(s, e, hh + (mid \div Half), mid % Half)

\* (ah*10^4 + al) * (ch*10^4 + cl) in 32-bit pieces.
MulParts(s, e, ah, al, ch, cl) ==
  MulMid(s, e, ah * ch, ah * cl + al * ch + ((al * cl) \div Half))

Mul(x, y) ==
  IF x.m = 0 \/ y.m = 0 THEN Zero
  ELSE MulParts(Sgn(x.m) * Sgn(y.m), x.e + y.e,
                Abs(x.m) \div Half, Abs(x.m) % Half,
                Abs(y.m) \div Half, Abs(y.m) % Half)

RECURSIVE LongDiv(_, _, _)
\* k more digits of rem / c, rem < c.
LongDiv(rem, c, k) ==
  IF k = 0 THEN 0
  ELSE ((rem * 10) \div c) * Pow10(k - 1)
       + LongDiv((rem * 10) % c, c, k - 1)

\* a / c for mantissas a and c, nine digits and rounded.
DivMag(s, e, a, c) ==
  IF a >= c
    THEN Norm(s * ((a \div c) * MantHi + LongDiv(a % c, c, 8)), e - 8)
    ELSE Norm(s * LongDiv(a, c, 9), e - 9)

\* x / y, y nonzero (a zero divisor is a ZeroDivisionError, which the
\* callers decide before they divide).
Div(x, y) ==
  IF x.m = 0 THEN Zero
  ELSE DivMag(Sgn(x.m) * Sgn(y.m), x.e - y.e, Abs(x.m), Abs(y.m))

One == FromInt(1)

\* h is x ** (k \div 2).
PowStep(x, k, h) == IF k % 2 = 0 THEN Mul(h, h) ELSE Mul(Mul(h, h), x)

RECURSIVE Pow(_, _)
\* x ** k for an integer k >= 0, by squaring.
Pow(x, k) ==
  IF k = 0 THEN One
  ELSE IF k = 1 THEN x
  ELSE PowStep(x, k, Pow(x, k \div 2))

(***************************************************************************)
(* Bounds of the model.                                                    *)
(***************************************************************************)
MaxTenure == 2
MaxExit == 2
MaxSims == 2

\* Program constants.
MonthsPerYear == 12
Percent == 100
InterestCap == 200000
PrincipalCap == 150000

F12 == FromInt(MonthsPerYear)
F100 == FromInt(Percent)

(***************************************************************************)
(* Sidebar inputs.  The ones below are held at one value in every run of   *)
(* the model; mode, loan_rate, tenure, house_growth, exit_year and         *)
(* hold_to_end are drawn in Init.                                          *)
(***************************************************************************)
Modes == {"Simple (teaching model)", "India real-world model"}
India == "India real-world model"

price == FromInt(1500000)
down_pct == FromInt(20)
rent0 == FromInt(80000)
rent_growth == FromInt(6)
disc == FromInt(3)
monthly_costs == FromInt(450)
tax_rate == Dec(1, 1)
invest_return == FromInt(10)
cap_gain_tax == FromInt(20)
salary == FromInt(1200000)
hra_received == FromInt(300000)
metro == TRUE

LoanRates == {0, 3}
HouseGrowths == {-5, 3}
\* Monte Carlo draws (hg, rg) as offsets from (house_growth, rent_growth):
\* the mean itself and one other sample.
Draws == {<<0, 0>>, <<2, -3>>}

VARIABLES mode, loan_rate, tenure, house_growth, exit_year, hold_to_end,
          downpayment, loan_amt, r, n, emi, hra_tax_save_month,
          buy_now, rent_now, equity_track, b1, r1, b2, r2,
          be, y, b, be_msg, buy_vals, rent_vals, eq_vals,
          sims, res, prob, pc, call, calls

inputs == <<mode, loan_rate, tenure, house_growth, exit_year, hold_to_end>>
terms == <<downpayment, loan_amt, n, emi, hra_tax_save_month>>
live == <<buy_now, rent_now, equity_track>>
table == <<b1, r1, b2, r2>>
breakeven == <<be, be_msg>>
series == <<buy_vals, rent_vals, eq_vals>>
montecarlo == <<sims, res, prob>>
vars == <<inputs, terms, r, live, table, breakeven, y, b, series,
          montecarlo, pc, call, calls>>

(***************************************************************************)
(* compute_npv (src/app.py 78-143).  Engine takes the monthly loan rate as *)
(* a parameter; compute_npv reads it, as the code does, from the global r  *)
(* at the time of the call.  years_override = 0 stands for None.  The      *)
(* locals of the function are passed from operator to operator in the      *)
(* order the code assigns them.                                            *)
(***************************************************************************)
\* Lines 80-85.
Months(hold, years_override) ==
  IF years_override # 0 THEN years_override * MonthsPerYear
  ELSE IF hold THEN tenure * MonthsPerYear
  ELSE exit_year * MonthsPerYear

\* Line 87.
MonthlyDisc == Div(Div(disc, F100), F12)

\* Lines 100-105.
TaxBenefit(interest, principal) ==
  IF mode = India
    THEN Add(Div(Mul(Min(Mul(interest, F12), FromInt(InterestCap)),
                     tax_rate), F12),
             Div(Mul(Min(Mul(principal, F12), FromInt(PrincipalCap)),
                     tax_rate), F12))
    ELSE Zero

\* Lines 107-108.
BuyAppend(st, interest, principal, balance) ==
  [balance |-> balance,
   cf_buy |-> Append(st.cf_buy,
                     Add(Neg(Add(emi, monthly_costs)),
                         TaxBenefit(interest, principal))),
   bal_track |-> Append(st.bal_track, balance),
   equity_track |-> Append(st.equity_track, Sub(price, balance))]

\* Lines 97-98.
BuyPrincipal(st, interest, principal) ==
  BuyAppend(st, interest, principal, Sub(st.balance, principal))

BuyInterest(st, interest) == BuyPrincipal(st, interest, Sub(emi, interest))

\* Lines 96-108: one iteration of the buy loop.
BuyMonth(rate, st) == BuyInterest(st, Mul(st.balance, rate))

\* Lines 90-92.
BuyInit ==
  [balance |-> loan_amt, cf_buy |-> <<Neg(downpayment)>>,
   bal_track |-> <<>>, equity_track |-> <<>>]

\* for m in range(1, months+1): k iterations from the loop state st.  The
\* iterations run in order; the range is halved, and the state after the
\* first half bound as a value, only to keep the evaluation shallow.
RECURSIVE BuyLoop(_, _, _)
BuyLoop(rate, k, st) ==
  IF k = 0 THEN st
  ELSE IF k = 1 THEN BuyMonth(rate, st)
  ELSE CHOOSE out \in {BuyLoop(rate, k - (k \div 2), mid) :
                         mid \in {BuyLoop(rate, k \div 2, st)}} : TRUE

\* Line 112.
SalePrice(hg) == Mul(price, Pow(Add(One, Div(hg, F100)), exit_year))

\* The tax as the rate times the signed gain.
CapTaxOnSignedGain(sale_price) ==
  Div(Mul(Sub(sale_price, price), cap_gain_tax), F100)

\* Lines 116-117.
CapTax(sale_price) ==
  Div(Mul(Max(Sub(sale_price, price), Zero), cap_gain_tax), F100)

\* Lines 113-118.
SaleNet(sale_price, balance) ==
  IF mode = India
    THEN Sub(Sub(sale_price, balance), CapTax(sale_price))
    ELSE Sub(sale_price, balance)

\* Line 111.
ResaleFires(hold, years_override) == ~hold /\ years_override = 0

SaleOf(sale_price, balance) ==
  [sale_price |-> sale_price,
   cap_tax |-> IF mode = India THEN CapTax(sale_price) ELSE Zero,
   sale_net |-> SaleNet(sale_price, balance)]

NoSale == [sale_price |-> Zero, cap_tax |-> Zero, sale_net |-> Zero]

\* cfs[-1] += x
AddToLast(cfs, x) == [cfs EXCEPT ![Len(cfs)] = Add(cfs[Len(cfs)], x)]

\* Lines 111-120.
Resale(hg, hold, years_override, balance) ==
  IF ResaleFires(hold, years_override) THEN SaleOf(SalePrice(hg), balance)
  ELSE NoSale

BuyFlows(hold, years_override, cf_buy, sale) ==
  IF ResaleFires(hold, years_override) THEN AddToLast(cf_buy, sale.sale_net)
  ELSE cf_buy

\* Lines 131-133.
RentInvest(st, rent, invest) ==
  [rent |-> rent, invest |-> invest,
   cf_rent |-> Append(st.cf_rent, Add(Neg(rent), hra_tax_save_month)),
   rent_track |-> Append(st.rent_track, rent),
   invest_track |-> Append(st.invest_track, invest)]

\* The contribution taken from the rent before that month's growth.
RentGrownStaleRent(st, rent) ==
  IF mode = India
    THEN RentInvest(st, rent,
                    Add(Mul(st.invest,
                            Add(One, Div(Div(invest_return, F100), F12))),
                        Max(Sub(emi, st.rent), Zero)))
    ELSE [rent |-> rent, invest |-> st.invest,
          cf_rent |-> Append(st.cf_rent, Neg(rent)),
          rent_track |-> Append(st.rent_track, rent),
          invest_track |-> Append(st.invest_track, st.invest)]

\* Lines 130-135.
RentGrown(st, rent) ==
  IF mode = India
    THEN RentInvest(st, rent,
                    Add(Mul(st.invest,
                            Add(One, Div(Div(invest_return, F100), F12))),
                        Max(Sub(emi, rent), Zero)))
    ELSE [rent |-> rent, invest |-> st.invest,
          cf_rent |-> Append(st.cf_rent, Neg(rent)),
          rent_track |-> Append(st.rent_track, rent),
          invest_track |-> Append(st.invest_track, st.invest)]

\* Lines 128-135: one iteration of the rent loop.
RentMonth(rg, st) ==
  RentGrown(st, Mul(st.rent, Add(One, Div(Div(rg, F100), F12))))

\* Month 0 of the rent list charged a rent.
RentInitChargesRent ==
  [rent |-> rent0, invest |-> downpayment, cf_rent |-> <<Neg(rent0)>>,
   rent_track |-> <<>>, invest_track |-> <<>>]

\* Lines 123-125.
RentInit ==
  [rent |-> rent0, invest |-> downpayment, cf_rent |-> <<Zero>>,
   rent_track |-> <<>>, invest_track |-> <<>>]

RECURSIVE RentLoop(_, _, _)
RentLoop(rg, k, st) ==
  IF k = 0 THEN st
  ELSE IF k = 1 THEN RentMonth(rg, st)
  ELSE CHOOSE out \in {RentLoop(rg, k - (k \div 2), mid) :
                         mid \in {RentLoop(rg, k \div 2, st)}} : TRUE

\* Lines 137-138.
RentFinal(st) ==
  IF mode = India THEN AddToLast(st.cf_rent, st.invest) ELSE st.cf_rent

\* One term of npv's sum: cfs[i + 1] is the cash flow of month i.
NpvTerm(rate, cfs, st) ==
  [i |-> st.i + 1,
   total |-> Add(st.total, Div(cfs[st.i + 1], Pow(Add(One, rate), st.i)))]

RECURSIVE NpvLoop(_, _, _, _)
NpvLoop(rate, cfs, k, st) ==
  IF k = 0 THEN st
  ELSE IF k = 1 THEN NpvTerm(rate, cfs, st)
  ELSE CHOOSE out \in {NpvLoop(rate, cfs, k - (k \div 2), mid) :
                         mid \in {NpvLoop(rate, cfs, k \div 2, st)}} : TRUE

\* Lines 140-141: sum(cf/((1+rate)**i) for i,cf in enumerate(cfs)), left
\* to right from 0.
npv(rate, cfs) == NpvLoop(rate, cfs, Len(cfs), [i |-> 0, total |-> Zero]).total

\* Line 143, with the locals the function ends with.
EngineReturn(a, months, buy, sale, rentp, cf_buy, cf_rent) ==
  [hg |-> a.hg, rg |-> a.rg, hold |-> a.hold,
   years_override |-> a.years_override, rate |-> a.rate,
   months |-> months, cf_buy |-> cf_buy, cf_rent |-> cf_rent,
   bal_track |-> buy.bal_track, equity_track |-> buy.equity_track,
   resale |-> ResaleFires(a.hold, a.years_override),
   sale_price |-> sale.sale_price, cap_tax |-> sale.cap_tax,
   sale_net |-> sale.sale_net,
   rent_track |-> rentp.rent_track, invest_track |-> rentp.invest_track,
   buy |-> npv(MonthlyDisc, cf_buy), rent |-> npv(MonthlyDisc, cf_rent)]

EngineRent(a, months, buy, sale, rentp) ==
  EngineReturn(a, months, buy, sale, rentp,
               BuyFlows(a.hold, a.years_override, buy.cf_buy, sale),
               RentFinal(rentp))

EngineSale(a, months, buy) ==
  EngineRent(a, months, buy,
             Resale(a.hg, a.hold, a.years_override, buy.balance),
             RentLoop(a.rg, months, RentInit))

EngineBuy(a, months) == EngineSale(a, months, BuyLoop(a.rate, months, BuyInit))

Engine(rate, hg, rg, hold, years_override) ==
  EngineBuy([rate |-> rate, hg |-> hg, rg |-> rg, hold |-> hold,
             years_override |-> years_override],
            Months(hold, years_override))

compute_npv(hg, rg, hold, years_override) ==
  Engine(r, hg, rg, hold, years_override)

\* What a caller sees of a call: its arguments and the two present values.
Outcome(c) ==
  [hg |-> c.hg, rg |-> c.rg, hold |-> c.hold,
   years_override |-> c.years_override, buy |-> c.buy, rent |-> c.rent]

NoCall ==
  [hg |-> Zero, rg |-> Zero, hold |-> FALSE, years_override |-> 0,
   rate |-> Zero, months |-> 0, cf_buy |-> <<>>, cf_rent |-> <<>>,
   bal_track |-> <<>>, equity_track |-> <<>>, resale |-> FALSE,
   sale_price |-> Zero, cap_tax |-> Zero, sale_net |-> Zero,
   rent_track |-> <<>>, invest_track |-> <<>>, buy |-> Zero, rent |-> Zero]

(***************************************************************************)
(* The script, top to bottom (src/app.py 56-246).                          *)
(***************************************************************************)
Init ==
  /\ mode \in Modes
  /\ loan_rate \in LoanRates
  /\ tenure \in 1..MaxTenure
  /\ house_growth \in HouseGrowths
  /\ exit_year \in 1..MaxExit
  /\ hold_to_end \in BOOLEAN
  /\ downpayment = Zero /\ loan_amt = Zero /\ r = Zero /\ n = 0
  /\ emi = Zero /\ hra_tax_save_month = Zero
  /\ buy_now = Zero /\ rent_now = Zero /\ equity_track = <<>>
  /\ b1 = Zero /\ r1 = Zero /\ b2 = Zero /\ r2 = Zero
  /\ be = 0 /\ y = 0 /\ b = Zero /\ be_msg = ""
  /\ buy_vals = <<>> /\ rent_vals = <<>> /\ eq_vals = <<>>
  /\ sims = 0 /\ res = <<>> /\ prob = Zero
  /\ pc = "emi"
  /\ call = NoCall
  /\ calls = {}

\* Lines 56-59.
Downpayment == Div(Mul(price, down_pct), F100)
LoanAmt == Sub(price, Downpayment)
MonthlyRate == Div(Div(FromInt(loan_rate), F100), F12)
Installments == tenure * MonthsPerYear

\* Line 60: loan_amt*r*(1+r)**n / ((1+r)**n - 1).
EmiDenominator == Sub(Pow(Add(One, MonthlyRate), Installments), One)
Emi ==
  Div(Mul(Mul(LoanAmt, MonthlyRate), Pow(Add(One, MonthlyRate), Installments)),
      EmiDenominator)

\* Lines 56-60, the division defined.
ComputeEMI ==
  /\ pc = "emi"
  /\ ~IsZero(EmiDenominator)
  /\ downpayment' = Downpayment
  /\ loan_amt' = LoanAmt
  /\ r' = MonthlyRate
  /\ n' = Installments
  /\ emi' = Emi
  /\ pc' = "hra"
  /\ UNCHANGED <<inputs, hra_tax_save_month, live, table, breakeven, y, b,
                 series, montecarlo, call, calls>>

\* Lines 56-60, the division by zero: ZeroDivisionError ends the run.
EMIZeroDivisionError ==
  /\ pc = "emi"
  /\ IsZero(EmiDenominator)
  /\ downpayment' = Downpayment
  /\ loan_amt' = LoanAmt
  /\ r' = MonthlyRate
  /\ n' = Installments
  /\ pc' = "crashed"
  /\ UNCHANGED <<inputs, emi, hra_tax_save_month, live, table, breakeven, y,
                 b, series, montecarlo, call, calls>>

\* Lines 65-73.
HraTaxSaveMonth ==
  IF mode = India
    THEN LET rent_annual == Mul(rent0, F12)
             hra_exempt ==
               Min(Min(hra_received,
                       Max(Sub(rent_annual, Mul(Dec(1, 1), salary)), Zero)),
                   IF metro THEN Mul(Dec(5, 1), salary)
                   ELSE Mul(Dec(4, 1), salary))
         IN Div(Mul(hra_exempt, tax_rate), F12)
    ELSE Zero

ComputeHRA ==
  /\ pc = "hra"
  /\ hra_tax_save_month' = HraTaxSaveMonth
  /\ pc' = "live"
  /\ UNCHANGED <<inputs, downpayment, loan_amt, n, emi, r, live, table,
                 breakeven, y, b, series, montecarlo, call, calls>>

\* Line 148.
LiveDecision ==
  /\ pc = "live"
  /\ call' = compute_npv(FromInt(house_growth), rent_growth, hold_to_end, 0)
  /\ calls' = calls \cup {Outcome(call')}
  /\ buy_now' = call'.buy
  /\ rent_now' = call'.rent
  /\ equity_track' = call'.equity_track
  /\ pc' = "sell"
  /\ UNCHANGED <<inputs, terms, r, table, breakeven, y, b, series,
                 montecarlo>>

\* Line 166.
SellAfterChosenYears ==
  /\ pc = "sell"
  /\ call' = compute_npv(FromInt(house_growth), rent_growth, FALSE, 0)
  /\ calls' = calls \cup {Outcome(call')}
  /\ b1' = call'.buy
  /\ r1' = call'.rent
  /\ pc' = "hold"
  /\ UNCHANGED <<inputs, terms, r, live, b2, r2, breakeven, y, b, series,
                 montecarlo>>

\* Line 167.
HoldTillLoanEnd ==
  /\ pc = "hold"
  /\ call' = compute_npv(FromInt(house_growth), rent_growth, TRUE, 0)
  /\ calls' = calls \cup {Outcome(call')}
  /\ b2' = call'.buy
  /\ r2' = call'.rent
  /\ pc' = "breakeven"
  /\ UNCHANGED <<inputs, terms, r, live, b1, r1, breakeven, y, b, series,
                 montecarlo>>

\* Lines 182-187: one iteration of the break-even loop.  The unpacking
\* b,r,_ = compute_npv(...) binds the script's globals b and r.
BreakEvenStep ==
  /\ pc = "breakeven"
  /\ y < tenure
  /\ y' = y + 1
  /\ call' = compute_npv(FromInt(house_growth), rent_growth, FALSE, y')
  /\ calls' = calls \cup {Outcome(call')}
  /\ b' = call'.buy
  /\ r' = call'.rent
  /\ IF Gt(b', r')
       THEN be' = y' /\ pc' = "report"
       ELSE be' = be /\ pc' = IF y' = tenure THEN "report" ELSE "breakeven"
  /\ UNCHANGED <<inputs, terms, live, table, be_msg, series, montecarlo>>

\* Lines 189-192.
BreakEvenReport ==
  /\ pc = "report"
  /\ be_msg' = IF be # 0 THEN "Buying becomes better after"
               ELSE "Renting better across horizon"
  /\ y' = 0
  /\ pc' = "years"
  /\ UNCHANGED <<inputs, terms, r, live, table, be, b, series, montecarlo,
                 call, calls>>

\* Lines 203-206: one iteration of the NPV-vs-years loop.
NPVvsYearsStep ==
  /\ pc = "years"
  /\ y < tenure
  /\ y' = y + 1
  /\ call' = compute_npv(FromInt(house_growth), rent_growth, FALSE, y')
  /\ calls' = calls \cup {Outcome(call')}
  /\ b' = call'.buy
  /\ r' = call'.rent
  /\ buy_vals' = Append(buy_vals, b')
  /\ rent_vals' = Append(rent_vals, r')
  /\ pc' = IF y' = tenure THEN "equity" ELSE "years"
  /\ UNCHANGED <<inputs, terms, live, table, breakeven, eq_vals, montecarlo>>

\* Lines 218-219.
EquityBuild ==
  /\ pc = "equity"
  /\ eq_vals' = [i \in 1..(Len(equity_track) \div MonthsPerYear) |->
                   equity_track[i * MonthsPerYear]]
  /\ pc' = "montecarlo"
  /\ UNCHANGED <<inputs, terms, r, live, table, breakeven, y, b, buy_vals,
                 rent_vals, montecarlo, call, calls>>

\* Line 232, the button not pressed: the run ends.
MonteCarloNotRun ==
  /\ pc = "montecarlo"
  /\ pc' = "done"
  /\ UNCHANGED <<inputs, terms, r, live, table, breakeven, y, b, series,
                 montecarlo, call, calls>>

\* Lines 230-234, the button pressed (the slider's 100..1500 is cut to
\* 1..MaxSims).
MonteCarloStart ==
  /\ pc = "montecarlo"
  /\ \E s \in 1..MaxSims : sims' = s
  /\ res' = <<>>
  /\ pc' = "draw"
  /\ UNCHANGED <<inputs, terms, r, live, table, breakeven, y, b, series,
                 prob, call, calls>>

\* Lines 235-239: one draw.
MonteCarloDraw ==
  /\ pc = "draw"
  /\ Len(res) < sims
  /\ \E d \in Draws :
       call' = compute_npv(FromInt(house_growth + d[1]),
                           Add(rent_growth, FromInt(d[2])), hold_to_end, 0)
  /\ calls' = calls \cup {Outcome(call')}
  /\ b' = call'.buy
  /\ r' = call'.rent
  /\ res' = Append(res, Sub(b', r'))
  /\ UNCHANGED <<inputs, terms, live, table, breakeven, y, series, sims,
                 prob, pc>>

\* Lines 241-242.
MonteCarloFinish ==
  /\ pc = "draw"
  /\ Len(res) = sims
  /\ prob' = Div(FromInt(Cardinality({i \in 1..Len(res) : Gt(res[i], Zero)})),
                 FromInt(Len(res)))
  /\ pc' = "done"
  /\ UNCHANGED <<inputs, terms, r, live, table, breakeven, y, b, series,
                 sims, res, call, calls>>

Next ==
  \/ ComputeEMI
  \/ EMIZeroDivisionError
  \/ ComputeHRA
  \/ LiveDecision
  \/ SellAfterChosenYears
  \/ HoldTillLoanEnd
  \/ BreakEvenStep
  \/ BreakEvenReport
  \/ NPVvsYearsStep
  \/ EquityBuild
  \/ MonteCarloNotRun
  \/ MonteCarloStart
  \/ MonteCarloDraw
  \/ MonteCarloFinish

Spec == Init /\ [][Next]_vars

\* Every number of the last call lies within the binary64 range.
NoFloatOverflow ==
  /\ \A i \in 1..Len(call.cf_buy) : call.cf_buy[i].e < 300
  /\ \A i \in 1..Len(call.bal_track) : call.bal_track[i].e < 300
  /\ call.buy.e < 300
(***************************************************************************)
(* What the specification says of the program, settled on the model.       *)
(* The statements about one invocation are about call, the locals the      *)
(* last invocation of compute_npv ended with; calls holds what every       *)
(* invocation of the run returned.                                         *)
(***************************************************************************)
Called == call # NoCall

\* The balance month m of call c starts with (line 90, line 98).
PrevBalance(c, m) == IF m = 1 THEN loan_amt ELSE c.bal_track[m - 1]

\* The recurring buy cash flow of month m of call c (lines 96-107).
Recurring(c, m) ==
  Add(Neg(Add(emi, monthly_costs)),
      TaxBenefit(Mul(PrevBalance(c, m), c.rate),
                 Sub(emi, Mul(PrevBalance(c, m), c.rate))))

\* The last element of a cash-flow list.
Last(cfs) == cfs[Len(cfs)]

SameArguments(c1, c2) ==
  /\ c1.hg = c2.hg
  /\ c1.rg = c2.rg
  /\ c1.hold = c2.hold
  /\ c1.years_override = c2.years_override

\* C1: within one run, any two invocations of compute_npv with the same
\* arguments (hg, rg, hold, years_override) return the same buy PV and the
\* same rent PV, wherever in the run they occur.
C1_SameArgumentsSameResult ==
  \A c1, c2 \in calls :
    SameArguments(c1, c2) => c1.buy = c2.buy /\ c1.rent = c2.rent

\* The resale price at the horizon of call c, as the specification gives
\* it: price * (1 + hg%) ^ years.
ResalePriceAtHorizon(c) ==
  Mul(price, Pow(Add(One, Div(c.hg, F100)), c.months \div MonthsPerYear))

\* Resale price less remaining balance, less capital-gains tax in India
\* mode.
NetSaleProceeds(c) == SaleNet(ResalePriceAtHorizon(c), c.bal_track[c.months])

\* C2: every invocation with a finite horizon that is not hold-to-maturity
\* (sell after N years, or an explicit years_override) adds the net sale
\* proceeds to the final month's buy cash flow; a hold-to-maturity
\* invocation adds no resale amount.
C2_SaleProceedsAtEveryFiniteHorizon ==
  Called =>
    Last(call.cf_buy) =
      IF call.hold /\ call.years_override = 0
        THEN Recurring(call, call.months)
        ELSE Add(Recurring(call, call.months), NetSaleProceeds(call))

\* Whether buying beats renting over yy years under the loan terms derived
\* from the user's inputs.
BuyBeatsRent(yy) ==
  Gt(Engine(MonthlyRate, FromInt(house_growth), rent_growth, FALSE, yy).buy,
     Engine(MonthlyRate, FromInt(house_growth), rent_growth, FALSE, yy).rent)

\* C3: the break-even search reports be exactly when be is the smallest y
\* in 1..tenure for which the engine, with the user's loan parameters and a
\* holding period of y years, gives buy PV > rent PV; when there is none it
\* runs through all tenure years and reports "Renting better across
\* horizon".
C3_BreakEvenIsSmallestYear ==
  (pc = "years" /\ y = 0) =>
    IF \E yy \in 1..tenure : BuyBeatsRent(yy)
      THEN /\ be \in 1..tenure
           /\ BuyBeatsRent(be)
           /\ \A yy \in 1..(be - 1) : ~BuyBeatsRent(yy)
           /\ be_msg = "Buying becomes better after"
      ELSE be = 0 /\ be_msg = "Renting better across horizon"

\* C4: when the loan interest rate is 0 the installment is the principal
\* divided by the number of installments, and no division by zero occurs.
C4_ZeroRateInstallment ==
  loan_rate = 0 =>
    /\ pc # "crashed"
    /\ pc # "emi" => emi = Div(loan_amt, FromInt(n))

\* The rounding tolerance: one part in 10^5 of the principal, the error an
\* eight-digit mantissa can gather over the months of a loan.
Tolerance == Mul(loan_amt, Dec(1, 5))

NearZero(x) == Le(x, Tolerance) /\ Ge(x, Neg(Tolerance))

\* The balance of call c never rises, and is repaid after tenure*12 months.
Amortizes(c) ==
  /\ \A m \in 1..c.months : Le(c.bal_track[m], PrevBalance(c, m))
  /\ c.months = n => NearZero(c.bal_track[c.months])

\* C5: for a positive principal, rate and tenure, in the engine's
\* amortization loop the outstanding balance never increases from one
\* month to the next, and after exactly tenure*12 months it is zero within
\* rounding tolerance.
C5_BalanceAmortizes == (Called /\ loan_rate > 0) => Amortizes(call)

\* The same of the invocations that read the derived monthly rate.
AmortizesUnderDerivedRate ==
  (Called /\ loan_rate > 0 /\ call.rate = MonthlyRate) => Amortizes(call)

\* House-growth arguments, in percent, the engine is given.
GrowthGrid == {-300, -100, 0, 3}

\* Buy PV minus rent PV of an invocation at the run's horizon.
NetAdvantage(hg) ==
  Sub(compute_npv(FromInt(hg), rent_growth, hold_to_end, 0).buy,
      compute_npv(FromInt(hg), rent_growth, hold_to_end, 0).rent)

\* C6: for a fixed horizon and all other inputs fixed, buy PV minus rent PV
\* is non-decreasing in the house-growth argument, over every pair of
\* values the engine accepts, in both modes.  Stated of the engine as the
\* live decision is about to call it.
C6_NetAdvantageMonotoneInGrowth ==
  pc = "live" =>
    \A hg1, hg2 \in GrowthGrid :
      hg1 <= hg2 => Le(NetAdvantage(hg1), NetAdvantage(hg2))

\* The same over growth arguments above -100%, where the compounding
\* factor 1 + hg/100 is positive.
NetAdvantageMonotoneAboveMinus100 ==
  pc = "live" =>
    \A hg1, hg2 \in {-99, -5, 0, 3} :
      hg1 <= hg2 => Le(NetAdvantage(hg1), NetAdvantage(hg2))

\* C7: for every invocation with a horizon of N months the buy and rent
\* cash-flow sequences both have length N+1, and index 0 of each holds only
\* the initiation outlay: minus the down payment on the buy side, nothing
\* on the rent side.
C7_CashFlowsAligned ==
  Called =>
    /\ Len(call.cf_buy) = call.months + 1
    /\ Len(call.cf_rent) = call.months + 1
    /\ call.cf_buy[1] = Neg(downpayment)
    /\ call.cf_rent[1] = Zero

\* An India-mode sale after two years, where the last element of both
\* lists received a terminal amount.
C7_Witness ==
  /\ Called
  /\ mode = India
  /\ call.resale
  /\ call.months = 2 * MonthsPerYear

\* C8: after the loan terms are derived, every engine call and every
\* driver step leaves downpayment, loan_amt, the monthly loan rate r, the
\* installment count n and emi as they were derived.
C8_LoanTermsUnchanged ==
  pc \notin {"emi", "crashed", "hra"} =>
    /\ downpayment = Downpayment
    /\ loan_amt = LoanAmt
    /\ r = MonthlyRate
    /\ n = Installments
    /\ emi = Emi

\* C9: in India mode, whenever a resale occurs, the capital-gains tax taken
\* from the sale proceeds is never negative and is zero when the resale
\* price does not exceed the original price; in simple mode none is taken.
C9_CapitalGainsTaxOnGainsOnly ==
  (Called /\ call.resale) =>
    IF mode = India
      THEN /\ Ge(call.cap_tax, Zero)
           /\ Le(call.sale_price, price) => IsZero(call.cap_tax)
           /\ Last(call.cf_buy) =
                Add(Recurring(call, call.months),
                    Sub(Sub(call.sale_price, call.bal_track[call.months]),
                        call.cap_tax))
      ELSE Last(call.cf_buy) =
             Add(Recurring(call, call.months),
                 Sub(call.sale_price, call.bal_track[call.months]))

\* An India-mode sale at a loss.
C9_Witness ==
  /\ Called
  /\ mode = India
  /\ call.resale
  /\ Lt(call.sale_price, price)

\* The invested balance and the rent month m of call c starts with.
PrevInvest(c, m) == IF m = 1 THEN downpayment ELSE c.invest_track[m - 1]
PrevRent(c, m) == IF m = 1 THEN rent0 ELSE c.rent_track[m - 1]

\* C10: in India mode the rent path's invested balance is, each month,
\* first compounded at invest_return/12 and then increased by
\* max(emi - rent, 0) with that month's grown rent, and the balance after
\* the last month is added to the last month's rent cash flow; in simple
\* mode no invested balance is added to any rent cash flow.
C10_InvestedBalance ==
  Called =>
    /\ \A m \in 1..call.months :
         call.rent_track[m] =
           Mul(PrevRent(call, m), Add(One, Div(Div(call.rg, F100), F12)))
    /\ IF mode = India
         THEN /\ \A m \in 1..call.months :
                   call.invest_track[m] =
                     Add(Mul(PrevInvest(call, m),
                             Add(One, Div(Div(invest_return, F100), F12))),
                         Max(Sub(emi, call.rent_track[m]), Zero))
              /\ \A m \in 1..(call.months - 1) :
                   call.cf_rent[m + 1] =
                     Add(Neg(call.rent_track[m]), hra_tax_save_month)
              /\ Last(call.cf_rent) =
                   Add(Add(Neg(call.rent_track[call.months]),
                           hra_tax_save_month),
                       call.invest_track[call.months])
         ELSE \A m \in 1..call.months :
                call.cf_rent[m + 1] = Neg(call.rent_track[m])

\* An India-mode invocation in which the installment exceeds the rent, so
\* that the monthly contribution is positive.
C10_Witness ==
  /\ Called
  /\ mode = India
  /\ Gt(emi, call.rent_track[call.months])
====
